---- MODULE Spec2Model ----
(***************************************************************************)
(* Model of src/index.ts: the sr_id example workflow.  Two submissions     *)
(* (a native transfer and a CEP-18 contract call) are each encoded, built, *)
(* signed, broadcast, awaited, classified, fetched and decoded, one after  *)
(* the other, by main.                                                     *)
(*                                                                         *)
(* The remote ledger service and the RPC client (putTransaction,           *)
(* waitForTransaction, getTransactionByTransactionHash) are collaborators  *)
(* whose code is not part of src/index.ts; their behaviour is modelled     *)
(* from spec.md sections 4.4 and 6.                                        *)
(***************************************************************************)
EXTENDS Integers, Sequences, FiniteSets, TLC

VARIABLES
    mpc,            \* position of main: "native", "cep18", "done"
    pc,             \* pc[t]: position inside run_<t>_example / send_<t>_transfer
    local,          \* local[t]: pipeline state of the submission (spec 4.4)
    srid,           \* srid[t]: the CLValue made by new_sr_id, as an option
    tx,             \* tx[t]: the Transaction object, as an option
    putCount,       \* putCount[t]: number of putTransaction requests issued
    pollCount,      \* pollCount[t]: number of status reads made by the wait
    elapsed,        \* elapsed[t]: milliseconds spent in waitForTransaction
    remote,         \* remote[t]: the record the service keeps, as an option
    waitResult,     \* waitResult[t]: transactionResult, as an option
    sendResult,     \* sendResult[t]: settlement of the send_<t>_transfer promise
    fetched,        \* fetched[t]: native_tx / cep18_tx, as an option
    extracted,      \* extracted[t]: extracted_sr_id, as an option
    exampleResult,  \* exampleResult[t]: settlement of the run_<t>_example promise
    errlog,         \* what console.error printed, in order
    hashLog,        \* hashLog[t]: the hash printed after signing, as an option
    putAnswer,      \* putAnswer[t]: the service's answer to putTransaction, as an option
    mainResult,     \* settlement of the promise returned by main()
    rendering,      \* what toString() of the SDK's byteArray gives: "hex" or "decimal"
    uval,           \* unit harness: the number given to new_sr_id
    urec,           \* unit harness: the record given to the success check
    uargs,          \* unit harness: the argument list given to extract_sr_id
    uamt,           \* unit harness: the amount given to build_native_transfer
    uout            \* unit harness: results of the calls

vars == <<mpc, pc, local, srid, tx, putCount, pollCount, elapsed, remote,
          waitResult, sendResult, fetched, extracted, exampleResult, errlog,
          hashLog, putAnswer, mainResult, rendering, uval, urec, uargs, uamt,
          uout>>

progVars == <<mpc, pc, local, srid, tx, putCount, pollCount, elapsed, remote,
              waitResult, sendResult, fetched, extracted, exampleResult,
              errlog, hashLog, putAnswer, mainResult, rendering>>

unitInputs == <<uval, urec, uargs, uamt>>

unitVars == <<uval, urec, uargs, uamt, uout>>

(***************************************************************************)
(* Bounds and program constants                                            *)
(***************************************************************************)
\* Sleep between two status reads of the wait (implementation-defined).
PollIntervalMs == 40000

\* How far below 0 and above 255 the unit harness draws tag values.
MaxOver == 3

\* Longest argument list the unit harness gives to extract_sr_id.
MaxArgs == 2

\* waitForTransaction(transaction, 100000)
TimeoutMs == 100000

\* new Array<number>(32)
SrIdLen == 32

\* new_sr_id(15), new_sr_id(63)
NativeTag == 15

Cep18Tag == 63

\* Uint8Array element range
ByteMod == 256

T == {"native", "cep18"}

\* Error messages the service may attach to an execution result.
Msgs == {"", "User error: 1", "Out of gas"}

(***************************************************************************)
(* Option values: undefined is <<>>, a present value x is <<x>>.           *)
(***************************************************************************)
None == <<>>

Some(x) == <<x>>

Get(o) == o[1]

(***************************************************************************)
(* Argument codec                                                          *)
(***************************************************************************)
\* Uint8Array.from: each number is converted modulo 2^8.
ToUint8(n) == ((n % ByteMod) + ByteMod) % ByteMod

\* Variant: the value is written to the second slot.
new_sr_id_SecondSlot(value) ==
    LET arr == [i \in 1..SrIdLen |-> IF i = 2 THEN value ELSE 0]
    IN  [type |-> "ByteArray", byteArray |-> [i \in 1..SrIdLen |-> ToUint8(arr[i])]]

\* new_sr_id: 32 zeroes, slot 0 set to value, converted to a Uint8Array and
\* wrapped in a byte-array CLValue.  No range check, no failure path.
new_sr_id(value) ==
    LET arr == [i \in 1..SrIdLen |-> IF i = 1 THEN value ELSE 0]
    IN  [type |-> "ByteArray", byteArray |-> [i \in 1..SrIdLen |-> ToUint8(arr[i])]]

\* The type of CLValue.byteArray belongs to casper-js-sdk, not to src/index.ts:
\* a byte-array object whose toString() is hexadecimal, or a plain Uint8Array
\* whose toString() is the decimal join.  The program runs with one of them.
Renderings == {"hex", "decimal"}

Digit(d) == CASE d = 0 -> "0" [] d = 1 -> "1" [] d = 2 -> "2" [] d = 3 -> "3"
              [] d = 4 -> "4" [] d = 5 -> "5" [] d = 6 -> "6" [] d = 7 -> "7"
              [] d = 8 -> "8" [] d = 9 -> "9" [] d = 10 -> "a" [] d = 11 -> "b"
              [] d = 12 -> "c" [] d = 13 -> "d" [] d = 14 -> "e" [] d = 15 -> "f"

\* One byte: two lower-case hexadecimal digits, or its decimal numeral.
ByteToString(b) ==
    IF rendering = "hex" THEN Digit(b \div 16) \o Digit(b % 16)
    ELSE IF b < 10 THEN Digit(b)
    ELSE IF b < 100 THEN Digit(b \div 10) \o Digit(b % 10)
    ELSE Digit(b \div 100) \o Digit((b \div 10) % 10) \o Digit(b % 10)

\* Nothing between two hexadecimal bytes, a comma between two decimal ones.
Separator == IF rendering = "hex" THEN "" ELSE ","

RECURSIVE JoinBytes(_, _)
JoinBytes(bytes, i) ==
    IF i = 0 THEN ""
    ELSE IF i = 1 THEN ByteToString(bytes[1])
    ELSE JoinBytes(bytes, i - 1) \o Separator \o ByteToString(bytes[i])

\* arg.byteArray.toString(): "0f00...00" in hexadecimal, "15,0,...,0" in
\* decimal; the empty string for no bytes in both.
ByteArrayToString(bytes) == JoinBytes(bytes, Len(bytes))

\* Args.getByName: the value of the argument with exactly that name.
RECURSIVE getByName(_, _)
getByName(args, name) ==
    IF args = <<>> THEN None
    ELSE IF Head(args).name = name THEN Some(Head(args).value)
    ELSE getByName(Tail(args), name)

ArgumentNotFound ==
    [name |-> "Error", message |-> "sr_id argument not found in transaction"]

\* arg.byteArray!.toString() on a CLValue that holds no byte array.
NoByteArray ==
    [name |-> "TypeError",
     message |-> "Cannot read properties of undefined (reading 'toString')"]

\* Variant: the argument is looked up under another spelling of the name.
extract_sr_id_UpperCase(transaction) ==
    LET arg == getByName(transaction.args, "SR_ID")
    IN  IF arg = None
        THEN [kind |-> "throw", error |-> ArgumentNotFound]
        ELSE [kind |-> "return", value |-> ByteArrayToString(Get(arg).byteArray)]

\* extract_sr_id: throws when the argument is missing, else renders its bytes.
extract_sr_id(transaction) ==
    LET arg == getByName(transaction.args, "sr_id")
    IN  IF arg = None
        THEN [kind |-> "throw", error |-> ArgumentNotFound]
        ELSE IF Get(arg).type # "ByteArray"
        THEN [kind |-> "throw", error |-> NoByteArray]
        ELSE [kind |-> "return", value |-> ByteArrayToString(Get(arg).byteArray)]

(***************************************************************************)
(* Payload builder and signer                                              *)
(***************************************************************************)
\* The transaction hash: one address per built payload.
HashOf(t) == [address |-> t]

\* privateKey.publicKey, the initiator of both transactions.
InitiatorKey == "privateKey.publicKey"

\* PublicKey.fromHex('0202f5a9...')
NativeRecipient == "0202f5a92ab6da536e7b1a351406f3744224bec85d7acbab1497b65de48a1a707b64"

\* The amount of the native transfer, a decimal string.
NativeAmount == "4200000000"

\* build_native_transfer: pricing, the three arguments in insertion order,
\* the payload and the transaction.  Recipient and amount are not examined.
build_native_transfer(publicKey, recipient, amount, sr_id) ==
    [target |-> "Transfer",
     initiator |-> publicKey,
     args |-> << [name |-> "target", value |-> [type |-> "PublicKey", publicKey |-> recipient]],
                 [name |-> "amount", value |-> [type |-> "U512", number |-> amount]],
                 [name |-> "sr_id", value |-> sr_id] >>,
     hash |-> HashOf("native"),
     signed |-> FALSE]

\* Key.createByType("account-hash-040f...", KeyTypeID.Account)
Cep18Recipient == "account-hash-040fe59024a78372bc1225cfd5ed258eacdbbc7c5d09d35767777dc10c5d14ca"

\* CLValue.newCLUInt256(1000)
Cep18Amount == "1000"

build_cep18_transfer(sr_id) ==
    [target |-> "transfer",
     initiator |-> InitiatorKey,
     args |-> << [name |-> "recipient", value |-> [type |-> "Key", key |-> Cep18Recipient]],
                 [name |-> "amount", value |-> [type |-> "U256", number |-> Cep18Amount]],
                 [name |-> "sr_id", value |-> sr_id] >>,
     hash |-> HashOf("cep18"),
     signed |-> FALSE]

TagOf(t) == IF t = "native" THEN NativeTag ELSE Cep18Tag

BuildOf(t, sr_id) == IF t = "native"
                     THEN build_native_transfer(InitiatorKey, NativeRecipient,
                                                NativeAmount, sr_id)
                     ELSE build_cep18_transfer(sr_id)

(***************************************************************************)
(* Success check of send_native_transfer / send_cep18_transfer             *)
(***************************************************************************)
\* transactionResult.executionInfo?.executionResult.errorMessage
ErrorMessageOf(transactionResult) ==
    IF transactionResult.executionInfo = None THEN None
    ELSE Get(transactionResult.executionInfo).errorMessage

\* Variant: success as soon as execution information is present.
is_success_AnyExecution(transactionResult) ==
    transactionResult.executionInfo # None

\* let is_success = ...errorMessage == undefined
is_success(transactionResult) == ErrorMessageOf(transactionResult) = None

NotSuccessfulError == [name |-> "Error", message |-> "Transaction was not successful"]

\* Lines 90-95: throw when not successful, else return transaction.hash.
ClassifyOutcome(transactionResult, hash) ==
    IF ~is_success(transactionResult)
    THEN [kind |-> "rejected", error |-> NotSuccessfulError]
    ELSE [kind |-> "resolved", hash |-> hash]

\* Status of a record as the remote service sees it.
StatusOf(record) == IF record.executionInfo = None THEN "Pending" ELSE "Executed"

Pending == [kind |-> "pending"]

TerminalLocal == {"Executed", "Failed", "TimedOut"}

(***************************************************************************)
(* Records of the remote service                                           *)
(***************************************************************************)
ExecutionInfos == {Some([errorMessage |-> None])}
                  \cup {Some([errorMessage |-> Some(m)]) : m \in Msgs}

\* The record the service creates when it accepts a transaction.
AcceptedRecord(transaction) ==
    [address |-> transaction.hash, args |-> transaction.args, executionInfo |-> None]

(***************************************************************************)
(* Initial state: module load done, main() not yet started on an example   *)
(***************************************************************************)
ProgInit ==
    /\ mpc = "native"
    /\ pc = [t \in T |-> "idle"]
    /\ local = [t \in T |-> "None"]
    /\ srid = [t \in T |-> None]
    /\ tx = [t \in T |-> None]
    /\ putCount = [t \in T |-> 0]
    /\ pollCount = [t \in T |-> 0]
    /\ elapsed = [t \in T |-> 0]
    /\ remote = [t \in T |-> None]
    /\ waitResult = [t \in T |-> None]
    /\ sendResult = [t \in T |-> Pending]
    /\ fetched = [t \in T |-> None]
    /\ extracted = [t \in T |-> None]
    /\ exampleResult = [t \in T |-> Pending]
    /\ errlog = <<>>
    /\ hashLog = [t \in T |-> None]
    /\ putAnswer = [t \in T |-> None]
    /\ mainResult = Pending
    /\ rendering \in Renderings

UnitRecordIdle ==
    [address |-> HashOf("native"), args |-> <<>>, executionInfo |-> None]

UnitNothing ==
    [sr_id |-> None, outcome |-> None, roundtrip |-> None, extracted |-> None,
     built |-> None]

UnitIdle ==
    /\ uval = NativeTag
    /\ urec = UnitRecordIdle
    /\ uargs = <<>>
    /\ uamt = NativeAmount
    /\ uout = UnitNothing

Init == ProgInit /\ UnitIdle

(***************************************************************************)
(* main: await run_native_transfer_example().catch(console.error);         *)
(*       await run_cep18_transfer_example().catch(console.error);          *)
(* The settlement of an example is awaited; a rejection is handed to       *)
(* console.error and main goes on to the next statement.                   *)
(***************************************************************************)
\* Variant: main awaits the example without a catch handler.
MainAwait_NoCatch(t, outcome) ==
    /\ exampleResult' = [exampleResult EXCEPT ![t] = outcome]
    /\ errlog' = errlog
    /\ mpc' = IF outcome.kind = "rejected" \/ t = "cep18" THEN "done" ELSE "cep18"
    /\ mainResult' = IF outcome.kind = "rejected" THEN outcome
                      ELSE IF t = "cep18" THEN [kind |-> "resolved"] ELSE mainResult

MainAwait(t, outcome) ==
    /\ exampleResult' = [exampleResult EXCEPT ![t] = outcome]
    /\ errlog' = IF outcome.kind = "rejected" THEN Append(errlog, outcome.error)
                 ELSE errlog
    /\ mpc' = IF t = "native" THEN "cep18" ELSE "done"
    /\ mainResult' = IF t = "cep18" THEN [kind |-> "resolved"] ELSE mainResult

\* run_<t>_example starts: the two console.log lines.
RunExample(t) ==
    /\ mpc = t
    /\ pc[t] = "idle"
    /\ pc' = [pc EXCEPT ![t] = "start"]
    /\ UNCHANGED <<mpc, local, srid, tx, putCount, pollCount, elapsed, remote,
                   waitResult, sendResult, fetched, extracted, exampleResult,
                   errlog, mainResult>>
    /\ UNCHANGED <<hashLog, putAnswer>>
    /\ UNCHANGED <<rendering, unitVars>>

\* new_sr_id(15) / new_sr_id(63)
CallNewSrId(t) ==
    /\ pc[t] = "start"
    /\ srid' = [srid EXCEPT ![t] = Some(new_sr_id(TagOf(t)))]
    /\ pc' = [pc EXCEPT ![t] = "encoded"]
    /\ UNCHANGED <<mpc, local, tx, putCount, pollCount, elapsed, remote,
                   waitResult, sendResult, fetched, extracted, exampleResult,
                   errlog, mainResult>>
    /\ UNCHANGED <<hashLog, putAnswer>>
    /\ UNCHANGED <<rendering, unitVars>>

\* build_native_transfer(...) / txBuilder.build()
Build(t) ==
    /\ pc[t] = "encoded"
    /\ tx' = [tx EXCEPT ![t] = Some(BuildOf(t, Get(srid[t])))]
    /\ local' = [local EXCEPT ![t] = "Built"]
    /\ pc' = [pc EXCEPT ![t] = "built"]
    /\ UNCHANGED <<mpc, srid, putCount, pollCount, elapsed, remote,
                   waitResult, sendResult, fetched, extracted, exampleResult,
                   errlog, mainResult>>
    /\ UNCHANGED <<hashLog, putAnswer>>
    /\ UNCHANGED <<rendering, unitVars>>

BuildError == [name |-> "BuildError", message |-> "payload construction failed"]

\* A constructor or builder of the SDK throws inside build_native_transfer /
\* txBuilder.build(); the exception leaves send_<t>_transfer and
\* run_<t>_example and reaches main.
BuildThrows(t) ==
    /\ pc[t] = "encoded"
    /\ sendResult' = [sendResult EXCEPT ![t] = [kind |-> "rejected", error |-> BuildError]]
    /\ pc' = [pc EXCEPT ![t] = "ended"]
    /\ MainAwait(t, [kind |-> "rejected", error |-> BuildError])
    /\ UNCHANGED <<local, srid, tx, putCount, pollCount, elapsed, remote,
                   waitResult, fetched, extracted>>
    /\ UNCHANGED <<hashLog, putAnswer>>
    /\ UNCHANGED <<rendering, unitVars>>

SigningError == [name |-> "SigningError", message |-> "signing failed"]

\* transaction.sign(privateKey) throws; the exception leaves
\* send_<t>_transfer and run_<t>_example and reaches main.
SignThrows(t) ==
    /\ pc[t] = "built"
    /\ sendResult' = [sendResult EXCEPT ![t] = [kind |-> "rejected", error |-> SigningError]]
    /\ pc' = [pc EXCEPT ![t] = "ended"]
    /\ MainAwait(t, [kind |-> "rejected", error |-> SigningError])
    /\ UNCHANGED <<local, srid, tx, putCount, pollCount, elapsed, remote,
                   waitResult, fetched, extracted>>
    /\ UNCHANGED <<hashLog, putAnswer>>
    /\ UNCHANGED <<rendering, unitVars>>

\* Variant: the transaction goes on without a signature.
Sign_Skipped(t) ==
    /\ pc[t] = "built"
    /\ hashLog' = [hashLog EXCEPT ![t] = Some(Get(tx[t]).hash)]
    /\ UNCHANGED putAnswer
    /\ local' = [local EXCEPT ![t] = "Signed"]
    /\ pc' = [pc EXCEPT ![t] = "signed"]
    /\ UNCHANGED <<mpc, srid, tx, putCount, pollCount, elapsed, remote,
                   waitResult, sendResult, fetched, extracted, exampleResult,
                   errlog, mainResult>>
    /\ UNCHANGED <<rendering, unitVars>>

\* transaction.sign(privateKey); the hash is logged.
Sign(t) ==
    /\ pc[t] = "built"
    /\ tx' = [tx EXCEPT ![t] = Some([Get(tx[t]) EXCEPT !.signed = TRUE])]
    /\ hashLog' = [hashLog EXCEPT ![t] = Some(Get(tx'[t]).hash)]
    /\ UNCHANGED putAnswer
    /\ local' = [local EXCEPT ![t] = "Signed"]
    /\ pc' = [pc EXCEPT ![t] = "signed"]
    /\ UNCHANGED <<mpc, srid, putCount, pollCount, elapsed, remote,
                   waitResult, sendResult, fetched, extracted, exampleResult,
                   errlog, mainResult>>
    /\ UNCHANGED <<rendering, unitVars>>

\* await rpcClient.putTransaction(transaction), first half: the request is
\* issued and send_<t>_transfer is suspended until the answer arrives.
PutTransaction(t) ==
    /\ pc[t] = "signed"
    /\ putCount' = [putCount EXCEPT ![t] = @ + 1]
    /\ pc' = [pc EXCEPT ![t] = "putting"]
    /\ UNCHANGED <<mpc, local, srid, tx, pollCount, elapsed, remote,
                   waitResult, sendResult, fetched, extracted, exampleResult,
                   errlog, mainResult>>
    /\ UNCHANGED <<hashLog, putAnswer>>
    /\ UNCHANGED <<rendering, unitVars>>

\* The service accepts the submitted transaction and creates its record.
ServiceAccepts(t) ==
    /\ pc[t] = "putting"
    /\ putAnswer[t] = None
    /\ remote' = [remote EXCEPT ![t] = Some(AcceptedRecord(Get(tx[t])))]
    /\ putAnswer' = [putAnswer EXCEPT ![t] = Some("accepted")]
    /\ UNCHANGED <<mpc, pc, local, srid, tx, putCount, pollCount, elapsed,
                   waitResult, sendResult, fetched, extracted, exampleResult,
                   errlog, mainResult>>
    /\ UNCHANGED hashLog
    /\ UNCHANGED <<rendering, unitVars>>

\* The service rejects the submitted transaction; no record is created.
ServiceRejects(t) ==
    /\ pc[t] = "putting"
    /\ putAnswer[t] = None
    /\ putAnswer' = [putAnswer EXCEPT ![t] = Some("rejected")]
    /\ UNCHANGED <<mpc, pc, local, srid, tx, putCount, pollCount, elapsed, remote,
                   waitResult, sendResult, fetched, extracted, exampleResult,
                   errlog, mainResult>>
    /\ UNCHANGED hashLog
    /\ UNCHANGED <<rendering, unitVars>>

\* await rpcClient.putTransaction(transaction), second half: the accepting
\* answer resumes send_<t>_transfer, which goes on to the wait.
PutAccepted(t) ==
    /\ pc[t] = "putting"
    /\ putAnswer[t] = Some("accepted")
    /\ local' = [local EXCEPT ![t] = "Broadcast"]
    /\ pc' = [pc EXCEPT ![t] = "wait"]
    /\ UNCHANGED <<mpc, srid, tx, putCount, pollCount, elapsed, remote,
                   waitResult, sendResult, fetched, extracted, exampleResult,
                   errlog, mainResult>>
    /\ UNCHANGED <<hashLog, putAnswer>>
    /\ UNCHANGED <<rendering, unitVars>>

BroadcastRejected == [name |-> "BroadcastRejected", message |-> "rejected by the service"]

\* Variant: the rejection of putTransaction is dropped and the wait starts.
PutRejected_Swallowed(t) ==
    /\ pc[t] = "putting"
    /\ putAnswer[t] = Some("rejected")
    /\ pc' = [pc EXCEPT ![t] = "wait"]
    /\ UNCHANGED <<mpc, local, srid, tx, putCount, pollCount, elapsed, remote,
                   waitResult, sendResult, fetched, extracted, exampleResult,
                   errlog, mainResult>>
    /\ UNCHANGED <<hashLog, putAnswer>>
    /\ UNCHANGED <<rendering, unitVars>>

\* Variant: a rejected putTransaction is issued again.
PutRejected_Retried(t) ==
    /\ pc[t] = "putting"
    /\ putAnswer[t] = Some("rejected")
    /\ putCount' = [putCount EXCEPT ![t] = @ + 1]
    /\ putAnswer' = [putAnswer EXCEPT ![t] = None]
    /\ UNCHANGED <<mpc, pc, local, srid, tx, pollCount, elapsed, remote,
                   waitResult, sendResult, fetched, extracted, exampleResult,
                   errlog, mainResult>>
    /\ UNCHANGED hashLog
    /\ UNCHANGED <<rendering, unitVars>>

\* await rpcClient.putTransaction(transaction), second half: the rejecting
\* answer resumes send_<t>_transfer with an exception, which leaves
\* send_<t>_transfer and run_<t>_example and reaches main.
PutRejected(t) ==
    /\ pc[t] = "putting"
    /\ putAnswer[t] = Some("rejected")
    /\ sendResult' = [sendResult EXCEPT ![t] =
                         [kind |-> "rejected", error |-> BroadcastRejected]]
    /\ pc' = [pc EXCEPT ![t] = "ended"]
    /\ MainAwait(t, [kind |-> "rejected", error |-> BroadcastRejected])
    /\ UNCHANGED <<local, srid, tx, putCount, pollCount, elapsed, remote,
                   waitResult, fetched, extracted>>
    /\ UNCHANGED <<hashLog, putAnswer>>
    /\ UNCHANGED <<rendering, unitVars>>

\* Variant: the wait returns whatever record the first read finds.
WaitObserve_Premature(t) ==
    /\ pc[t] = "wait"
    /\ elapsed[t] < TimeoutMs
    /\ pollCount' = [pollCount EXCEPT ![t] = @ + 1]
    /\ waitResult' = [waitResult EXCEPT ![t] = remote[t]]
    /\ pc' = [pc EXCEPT ![t] = "classify"]
    /\ UNCHANGED <<mpc, local, srid, tx, putCount, elapsed, remote,
                   sendResult, fetched, extracted, exampleResult,
                   errlog, mainResult>>
    /\ UNCHANGED <<hashLog, putAnswer>>
    /\ UNCHANGED <<rendering, unitVars>>

\* waitForTransaction: a status read that finds the record terminal.
WaitObserve(t) ==
    /\ pc[t] = "wait"
    /\ elapsed[t] < TimeoutMs
    /\ StatusOf(Get(remote[t])) # "Pending"
    /\ pollCount' = [pollCount EXCEPT ![t] = @ + 1]
    /\ waitResult' = [waitResult EXCEPT ![t] = remote[t]]
    /\ pc' = [pc EXCEPT ![t] = "classify"]
    /\ UNCHANGED <<mpc, local, srid, tx, putCount, elapsed, remote,
                   sendResult, fetched, extracted, exampleResult,
                   errlog, mainResult>>
    /\ UNCHANGED <<hashLog, putAnswer>>
    /\ UNCHANGED <<rendering, unitVars>>

\* waitForTransaction: a status read that finds the record pending, then a
\* sleep of one poll interval.
WaitSleep(t) ==
    /\ pc[t] = "wait"
    /\ elapsed[t] < TimeoutMs
    /\ StatusOf(Get(remote[t])) = "Pending"
    /\ pollCount' = [pollCount EXCEPT ![t] = @ + 1]
    /\ elapsed' = [elapsed EXCEPT ![t] = @ + PollIntervalMs]
    /\ UNCHANGED <<mpc, pc, local, srid, tx, putCount, remote,
                   waitResult, sendResult, fetched, extracted, exampleResult,
                   errlog, mainResult>>
    /\ UNCHANGED <<hashLog, putAnswer>>
    /\ UNCHANGED <<rendering, unitVars>>

ConfirmationTimeout == [name |-> "ConfirmationTimeout", message |-> "Timeout"]

\* Variant: any failure of the wait is rethrown as the execution failure.
WaitRejection_AsNotSuccessful(error) ==
    [kind |-> "rejected", error |-> NotSuccessfulError]

\* The rejection of the awaited wait leaves send_<t>_transfer unchanged.
WaitRejection(error) == [kind |-> "rejected", error |-> error]

\* Variant: the wait has no deadline.
WaitTimeout_NoDeadline(t) ==
    /\ FALSE
    /\ UNCHANGED vars

\* waitForTransaction: the deadline has passed; the wait fails and the
\* failure leaves send_<t>_transfer and run_<t>_example and reaches main.
WaitTimeout(t) ==
    /\ pc[t] = "wait"
    /\ elapsed[t] >= TimeoutMs
    /\ local' = [local EXCEPT ![t] = "TimedOut"]
    /\ sendResult' = [sendResult EXCEPT ![t] = WaitRejection(ConfirmationTimeout)]
    /\ pc' = [pc EXCEPT ![t] = "ended"]
    /\ MainAwait(t, WaitRejection(ConfirmationTimeout))
    /\ UNCHANGED <<srid, tx, putCount, pollCount, elapsed, remote,
                   waitResult, fetched, extracted>>
    /\ UNCHANGED <<hashLog, putAnswer>>
    /\ UNCHANGED <<rendering, unitVars>>

\* Variant: the failed check does not throw and the example goes on.
Classify_NoThrow(t) ==
    /\ pc[t] = "classify"
    /\ sendResult' = [sendResult EXCEPT ![t] =
                         [kind |-> "resolved", hash |-> Get(tx[t]).hash]]
    /\ local' = [local EXCEPT ![t] =
                    IF is_success(Get(waitResult[t])) THEN "Executed" ELSE "Failed"]
    /\ pc' = [pc EXCEPT ![t] = "fetch"]
    /\ UNCHANGED <<mpc, exampleResult, errlog, mainResult>>
    /\ UNCHANGED <<srid, tx, putCount, pollCount, elapsed, remote,
                   waitResult, fetched, extracted>>
    /\ UNCHANGED <<hashLog, putAnswer>>
    /\ UNCHANGED <<rendering, unitVars>>

\* Lines 89-95 / 141-147: the success check on transactionResult.
Classify(t) ==
    /\ pc[t] = "classify"
    /\ LET outcome == ClassifyOutcome(Get(waitResult[t]), Get(tx[t]).hash)
       IN  /\ sendResult' = [sendResult EXCEPT ![t] = outcome]
           /\ IF outcome.kind = "rejected"
              THEN /\ local' = [local EXCEPT ![t] = "Failed"]
                   /\ pc' = [pc EXCEPT ![t] = "ended"]
                   /\ MainAwait(t, outcome)
              ELSE /\ local' = [local EXCEPT ![t] = "Executed"]
                   /\ pc' = [pc EXCEPT ![t] = "fetch"]
                   /\ UNCHANGED <<mpc, exampleResult, errlog, mainResult>>
    /\ UNCHANGED <<srid, tx, putCount, pollCount, elapsed, remote,
                   waitResult, fetched, extracted>>
    /\ UNCHANGED <<hashLog, putAnswer>>
    /\ UNCHANGED <<rendering, unitVars>>

\* Variant: the record is looked up under the other example's hash.
FetchOk_OtherHash(t) ==
    /\ pc[t] = "fetch"
    /\ fetched' = [fetched EXCEPT ![t] = remote[CHOOSE u \in T : u # t]]
    /\ pc' = [pc EXCEPT ![t] = "extract"]
    /\ UNCHANGED <<mpc, local, srid, tx, putCount, pollCount, elapsed, remote,
                   waitResult, sendResult, extracted, exampleResult,
                   errlog, mainResult>>
    /\ UNCHANGED <<hashLog, putAnswer>>
    /\ UNCHANGED <<rendering, unitVars>>

\* getTransactionByTransactionHash(hash): the record kept at that address.
FetchOk(t) ==
    /\ pc[t] = "fetch"
    /\ fetched' = [fetched EXCEPT ![t] = remote[sendResult[t].hash.address]]
    /\ pc' = [pc EXCEPT ![t] = "extract"]
    /\ UNCHANGED <<mpc, local, srid, tx, putCount, pollCount, elapsed, remote,
                   waitResult, sendResult, extracted, exampleResult,
                   errlog, mainResult>>
    /\ UNCHANGED <<hashLog, putAnswer>>
    /\ UNCHANGED <<rendering, unitVars>>

FetchFailed == [name |-> "RpcError", message |-> "request failed"]

\* getTransactionByTransactionHash(hash): the request fails.
FetchFails(t) ==
    /\ pc[t] = "fetch"
    /\ pc' = [pc EXCEPT ![t] = "ended"]
    /\ MainAwait(t, [kind |-> "rejected", error |-> FetchFailed])
    /\ UNCHANGED <<local, srid, tx, putCount, pollCount, elapsed, remote,
                   waitResult, sendResult, fetched, extracted>>
    /\ UNCHANGED <<hashLog, putAnswer>>
    /\ UNCHANGED <<rendering, unitVars>>

\* extract_sr_id(native_tx) and the two closing console.log lines.
Extract(t) ==
    /\ pc[t] = "extract"
    /\ LET r == extract_sr_id(Get(fetched[t]))
       IN  IF r.kind = "throw"
           THEN /\ MainAwait(t, [kind |-> "rejected", error |-> r.error])
                /\ UNCHANGED extracted
           ELSE /\ extracted' = [extracted EXCEPT ![t] = Some(r.value)]
                /\ MainAwait(t, [kind |-> "resolved"])
    /\ pc' = [pc EXCEPT ![t] = "ended"]
    /\ UNCHANGED <<local, srid, tx, putCount, pollCount, elapsed, remote,
                   waitResult, sendResult, fetched>>
    /\ UNCHANGED <<hashLog, putAnswer>>
    /\ UNCHANGED <<rendering, unitVars>>

\* The service executes an accepted transaction, at any time after it
\* accepted it, with or without an error message.
RemoteExecute(t) ==
    /\ remote[t] # None
    /\ StatusOf(Get(remote[t])) = "Pending"
    /\ \E info \in ExecutionInfos :
          remote' = [remote EXCEPT ![t] = Some([Get(remote[t]) EXCEPT !.executionInfo = info])]
    /\ UNCHANGED <<mpc, pc, local, srid, tx, putCount, pollCount, elapsed,
                   waitResult, sendResult, fetched, extracted, exampleResult,
                   errlog, mainResult>>
    /\ UNCHANGED <<hashLog, putAnswer>>
    /\ UNCHANGED <<rendering, unitVars>>

Program ==
    \E t \in T :
        \/ RunExample(t)
        \/ CallNewSrId(t)
        \/ Build(t)
        \/ BuildThrows(t)
        \/ Sign(t)
        \/ SignThrows(t)
        \/ PutTransaction(t)
        \/ PutAccepted(t)
        \/ PutRejected(t)
        \/ WaitObserve(t)
        \/ WaitSleep(t)
        \/ WaitTimeout(t)
        \/ Classify(t)
        \/ FetchOk(t)
        \/ FetchFails(t)
        \/ Extract(t)

Service ==
    \E t \in T :
        \/ ServiceAccepts(t)
        \/ ServiceRejects(t)
        \/ RemoteExecute(t)

Next == Program \/ Service

Spec == Init /\ [][Next]_vars

\* The event loop runs every timer and continuation of the program that is
\* due; the service is under no obligation.
FairSpec == Spec /\ WF_vars(Program)

(***************************************************************************)
(* Unit harness: new_sr_id and the success check applied to drawn inputs   *)
(***************************************************************************)
UnitValues == (0 - MaxOver) .. (ByteMod - 1 + MaxOver)

UnitRecords ==
    [address : {HashOf("native")}, args : {<<>>},
     executionInfo : {None} \cup ExecutionInfos]

\* Argument names: the tag's name, another spelling of it, another argument.
UnitNames == {"sr_id", "SR_ID", "amount"}

\* The value held under each name; the three are different values.
UnitValueOf(name) ==
    CASE name = "sr_id" -> new_sr_id(NativeTag)
      [] name = "SR_ID" -> new_sr_id(Cep18Tag)
      [] name = "amount" -> [type |-> "U512", number |-> NativeAmount]

\* Argument lists with unique names (spec 3), the empty list included.
UnitArgLists ==
    LET lists(n) == {[i \in 1..n |-> [name |-> f[i], value |-> UnitValueOf(f[i])]] :
                        f \in {g \in [1..n -> UnitNames] :
                                  \A a, b \in 1..n : a # b => g[a] # g[b]}}
    IN  UNION {lists(n) : n \in 0..MaxArgs}

\* Amounts as decimal strings, zero included.
UnitAmounts == {"0", "1", NativeAmount}

\* One input is drawn, the others keep their idle value.
UnitInit ==
    /\ ProgInit
    /\ uout = UnitNothing
    /\ \/ uval \in UnitValues /\ urec = UnitRecordIdle /\ uargs = <<>> /\ uamt = NativeAmount
       \/ uval = NativeTag /\ urec \in UnitRecords /\ uargs = <<>> /\ uamt = NativeAmount
       \/ uval = NativeTag /\ urec = UnitRecordIdle /\ uargs \in UnitArgLists /\ uamt = NativeAmount
       \/ uval = NativeTag /\ urec = UnitRecordIdle /\ uargs = <<>> /\ uamt \in UnitAmounts

UnitNewSrId ==
    /\ uout.sr_id = None
    /\ uout' = [uout EXCEPT !.sr_id = Some(new_sr_id(uval))]
    /\ UNCHANGED unitInputs
    /\ UNCHANGED progVars

UnitClassify ==
    /\ uout.outcome = None
    /\ uout' = [uout EXCEPT !.outcome = Some(ClassifyOutcome(urec, urec.address))]
    /\ UNCHANGED unitInputs
    /\ UNCHANGED progVars

\* The tag is encoded, placed in a transaction of kind t, the transaction is
\* accepted and executed by the service, and the record is decoded.
UnitRoundTrip ==
    /\ uout.roundtrip = None
    /\ \E t \in T :
          LET transaction == BuildOf(t, new_sr_id(uval))
              record == AcceptedRecord(transaction)
          IN  uout' = [uout EXCEPT !.roundtrip =
                          Some([t |-> t, result |-> extract_sr_id(record)])]
    /\ UNCHANGED unitInputs
    /\ UNCHANGED progVars

UnitExtract ==
    /\ uout.extracted = None
    /\ uout' = [uout EXCEPT !.extracted =
                   Some(extract_sr_id([address |-> HashOf("native"), args |-> uargs,
                                       executionInfo |-> None]))]
    /\ UNCHANGED unitInputs
    /\ UNCHANGED progVars

UnitBuild ==
    /\ uout.built = None
    /\ uout' = [uout EXCEPT !.built =
                   Some([kind |-> "return",
                         value |-> build_native_transfer(InitiatorKey, NativeRecipient,
                                                         uamt, new_sr_id(NativeTag))])]
    /\ UNCHANGED unitInputs
    /\ UNCHANGED progVars

UnitNext == UnitNewSrId \/ UnitClassify \/ UnitRoundTrip \/ UnitExtract \/ UnitBuild

UnitSpec == UnitInit /\ [][UnitNext]_vars

(***************************************************************************)
(* Properties                                                              *)
(***************************************************************************)
WaitReturned(t) == waitResult[t] # None

Classified(t) == WaitReturned(t) /\ pc[t] # "classify"

ExecutedWithError(record) ==
    StatusOf(record) = "Executed" /\ ErrorMessageOf(record) # None

\* C1: a record returned by the wait that is Executed and carries an
\* errorMessage makes send_<t>_transfer throw; it never returns the hash and
\* the submission is never classified as success.
C1_ExecutedWithErrorFails ==
    \A t \in T :
        (Classified(t) /\ ExecutedWithError(Get(waitResult[t])))
            => /\ sendResult[t].kind = "rejected"
               /\ local[t] = "Failed"
               /\ fetched[t] = None

C1_Witness ==
    \E t \in T : /\ Classified(t)
                 /\ ExecutedWithError(Get(waitResult[t]))
                 /\ Get(ErrorMessageOf(Get(waitResult[t]))) = ""

\* C2: the success check returns the hash if and only if the record is
\* Executed and has no errorMessage; a record without execution information
\* is never classified as success.
C2_SuccessIffExecutedWithoutError ==
    uout.outcome # None =>
        (Get(uout.outcome).kind = "resolved"
            <=> (StatusOf(urec) = "Executed" /\ ErrorMessageOf(urec) = None))

\* C3: whenever the confirmation wait has returned or failed, either the
\* record it returned has a terminal status or the timeout has elapsed.
C3_NoPrematureReturn ==
    \A t \in T :
        /\ WaitReturned(t) =>
              (StatusOf(Get(waitResult[t])) # "Pending" \/ elapsed[t] >= TimeoutMs)
        /\ local[t] = "TimedOut" => elapsed[t] >= TimeoutMs

C3_Witness ==
    \E t \in T : /\ WaitReturned(t)
                 /\ elapsed[t] > 0
                 /\ elapsed[t] < TimeoutMs

\* C4: every submission that has been broadcast eventually reaches one of
\* the local terminal states Executed, Failed, TimedOut, and once there it
\* never leaves it, even if the remote record stays Pending forever.
C4_BroadcastTerminates ==
    /\ \A t \in T : (local[t] = "Broadcast") ~> (local[t] \in TerminalLocal)
    /\ [][\A t \in T : local[t] \in TerminalLocal => local'[t] = local[t]]_vars

C4_Witness ==
    \E t \in T : /\ local[t] = "TimedOut"
                 /\ StatusOf(Get(remote[t])) = "Pending"
                 /\ mpc = "done"

\* C5: a submission whose wait timed out fails with the timeout failure,
\* which is not the execution failure and not success, whether or not the
\* remote transaction executes later.
C5_TimeoutDistinct ==
    \A t \in T :
        local[t] = "TimedOut"
            => /\ sendResult[t].kind = "rejected"
               /\ sendResult[t].error = ConfirmationTimeout
               /\ sendResult[t].error # NotSuccessfulError
               /\ exampleResult[t] = sendResult[t]
               /\ fetched[t] = None

C5_Witness ==
    \E t \in T : /\ local[t] = "TimedOut"
                 /\ StatusOf(Get(remote[t])) = "Executed"

BroadcastWasRejected(t) == putAnswer[t] = Some("rejected")

\* C6: when the service rejects the broadcast, the submission, once the
\* answer has resumed it, has failed with BroadcastRejected; its local state
\* stays Signed, and no confirmation poll, success classification, record
\* fetch or extraction is made for it.
C6_RejectedBroadcastStops ==
    \A t \in T :
        BroadcastWasRejected(t)
            => /\ pc[t] \in {"putting", "ended"}
               /\ pc[t] = "ended" =>
                     /\ sendResult[t] = [kind |-> "rejected", error |-> BroadcastRejected]
                     /\ exampleResult[t] = sendResult[t]
               /\ local[t] = "Signed"
               /\ remote[t] = None
               /\ pollCount[t] = 0
               /\ waitResult[t] = None
               /\ fetched[t] = None
               /\ extracted[t] = None

C6_Witness ==
    /\ BroadcastWasRejected("native")
    /\ mpc = "done"

\* C7: each signed transaction is broadcast at most once; a rejected
\* broadcast, a timeout or an execution failure does not broadcast again,
\* and only the status read of the wait is repeated.
C7_BroadcastAtMostOnce ==
    \A t \in T :
        /\ putCount[t] <= 1
        /\ pc[t] \in {"putting", "wait", "classify", "fetch", "extract"} => putCount[t] = 1
        /\ pc[t] \in {"idle", "start", "encoded", "built", "signed"} => putCount[t] = 0

C7_Witness ==
    \E t \in T : /\ local[t] = "TimedOut"
                 /\ pollCount[t] >= 2
                 /\ putCount[t] = 1
                 /\ mpc = "done"

\* C8: when a terminal record is classified as failure, the failure given to
\* the caller is ExecutionFailed and carries record.errorMessage verbatim.
C8_FailureCarriesMessage ==
    \A t \in T :
        local[t] = "Failed"
            => /\ sendResult[t].kind = "rejected"
               /\ sendResult[t].error.name = "ExecutionFailed"
               /\ sendResult[t].error.message = Get(ErrorMessageOf(Get(waitResult[t])))

AnyFailure == \E t \in T : exampleResult[t].kind = "rejected"

\* C9: a failure on any path reaches the caller as a failure of the call it
\* made; main never completes normally after a failure that was only logged.
C9_FailuresReachCaller ==
    (mainResult # Pending /\ AnyFailure) => mainResult.kind = "rejected"

\* C10: new_sr_id of a value outside 0..255 fails with EncodingError instead
\* of producing a byte array.
C10_OutOfRangeFails ==
    (uout.sr_id # None /\ uval \notin 0..(ByteMod - 1))
        => Get(uout.sr_id).type = "EncodingError"

\* The 32-byte array [v, 0, ..., 0].
TagArray(v) == [i \in 1..SrIdLen |-> IF i = 1 THEN v ELSE 0]

FifteenRendered ==
    IF rendering = "hex"
    THEN "0f00000000000000000000000000000000000000000000000000000000000000"
    ELSE "15,0,0,0,0,0,0,0,0,0,0,0,0,0,0,0,0,0,0,0,0,0,0,0,0,0,0,0,0,0,0,0"

\* C11: for every tag value v in 0..255, new_sr_id(v) is exactly the 32-byte
\* array [v,0,...,0], and extract_sr_id on the record of a native-transfer or
\* contract-call transaction that carries it as 'sr_id' returns the rendered
\* form of that same array (for 15: "0f00...00" in hexadecimal,
\* "15,0,...,0" in decimal).
C11_TagRoundTrip ==
    uval \in 0..(ByteMod - 1) =>
        /\ uout.sr_id # None =>
              Get(uout.sr_id) = [type |-> "ByteArray", byteArray |-> TagArray(uval)]
        /\ uout.roundtrip # None =>
              /\ Get(uout.roundtrip).result =
                    [kind |-> "return", value |-> ByteArrayToString(TagArray(uval))]
              /\ uval = NativeTag => Get(uout.roundtrip).result.value = FifteenRendered

C11_Witness ==
    /\ uval = ByteMod - 1
    /\ uout.sr_id # None
    /\ uout.roundtrip # None
    /\ Get(uout.roundtrip).t = "cep18"

HasName(args, name) == \E i \in 1..Len(args) : args[i].name = name

\* C12: extract_sr_id finds the argument by the exact, case-sensitive name
\* 'sr_id': without an argument of exactly that name (only 'SR_ID', or an
\* empty list) it fails with the argument-not-found error and returns no
\* value; with it, it returns the rendering of that argument's value and of
\* no other argument's.  The tag argument holds a byte array (spec 3).
C12_ExactNameLookup ==
    uout.extracted # None =>
        LET r == Get(uout.extracted)
        IN  IF HasName(uargs, "sr_id")
            THEN /\ r.kind = "return"
                 /\ \A i \in 1..Len(uargs) :
                       /\ uargs[i].name = "sr_id" =>
                             r.value = ByteArrayToString(uargs[i].value.byteArray)
                       /\ (uargs[i].name # "sr_id" /\ uargs[i].value.type = "ByteArray") =>
                             r.value # ByteArrayToString(uargs[i].value.byteArray)
            ELSE r = [kind |-> "throw", error |-> ArgumentNotFound]

C12_Witness ==
    /\ uout.extracted # None
    /\ HasName(uargs, "SR_ID")
    /\ ~HasName(uargs, "sr_id")

\* C13: building a native transfer whose amount is not positive fails with
\* InvalidTarget and yields no payload.
C13_ZeroAmountRejected ==
    (uout.built # None /\ uamt = "0") => Get(uout.built).kind = "throw"

\* A request for submission t has gone to the service, or a record exists.
NetworkUsed(t) ==
    \/ putCount[t] > 0
    \/ pollCount[t] > 0
    \/ remote[t] # None
    \/ pc[t] \in {"fetch", "extract"}
    \/ fetched[t] # None

LocalFailure(t) ==
    /\ sendResult[t].kind = "rejected"
    /\ sendResult[t].error \in {BuildError, SigningError}

\* C14: per transaction the order is encode, build, sign, broadcast, poll:
\* no network request is issued before the payload is built and signed, an
\* unsigned transaction is never broadcast, and a failure in building or
\* signing leaves zero network requests and no remote record.
C14_LocalStepsBeforeNetwork ==
    \A t \in T :
        /\ tx[t] # None => srid[t] # None
        /\ NetworkUsed(t) => (tx[t] # None /\ Get(tx[t]).signed)
        /\ pollCount[t] > 0 => (putCount[t] = 1 /\ remote[t] # None)
        /\ (pc[t] \in {"fetch", "extract"} \/ fetched[t] # None) => pollCount[t] > 0
        /\ LocalFailure(t) => ~NetworkUsed(t)

C14_Witness ==
    /\ LocalFailure("native")
    /\ sendResult["native"].error = SigningError
    /\ pollCount["cep18"] > 0

\* C15: signing leaves the address of the transaction as it was built; the
\* hash logged after sign, the address under which the record is created and
\* polled, the hash returned by send_<t>_transfer and the address of the
\* record looked up afterwards are that one address.
C15_OneAddress ==
    \A t \in T :
        /\ tx[t] # None => Get(tx[t]).hash = HashOf(t)
        /\ hashLog[t] # None => Get(hashLog[t]) = HashOf(t)
        /\ remote[t] # None => Get(remote[t]).address = HashOf(t)
        /\ waitResult[t] # None => Get(waitResult[t]).address = HashOf(t)
        /\ sendResult[t].kind = "resolved" => sendResult[t].hash = HashOf(t)
        /\ pc[t] = "extract" =>
              (fetched[t] # None /\ Get(fetched[t]).address = HashOf(t))

C15_Witness ==
    /\ pc["cep18"] = "extract"
    /\ remote["native"] # None
    /\ hashLog["cep18"] # None

\* C17: while the remote status is Pending and the timeout has not elapsed,
\* the caller can abort the wait: a step exists that ends the wait without a
\* record and without the timeout, and leaves the remote records as they are.
C17_WaitAbortable ==
    \A t \in T :
        (pc[t] = "wait" /\ elapsed[t] < TimeoutMs /\ StatusOf(Get(remote[t])) = "Pending")
            => ENABLED (/\ Next
                        /\ pc'[t] # "wait"
                        /\ waitResult'[t] = None
                        /\ remote' = remote)

\* C18: the record fetch and extract_sr_id happen only after the submission
\* was classified successful; for a submission that was rejected at
\* broadcast, timed out or failed execution there is no fetch, no extraction
\* and no extracted value.
C18_FetchOnlyAfterSuccess ==
    \A t \in T :
        /\ (pc[t] \in {"fetch", "extract"} \/ fetched[t] # None \/ extracted[t] # None)
              => /\ sendResult[t].kind = "resolved"
                 /\ local[t] = "Executed"
                 /\ is_success(Get(waitResult[t]))
        /\ sendResult[t].kind = "rejected"
              => /\ pc[t] = "ended"
                 /\ fetched[t] = None
                 /\ extracted[t] = None

C18_Witness ==
    /\ sendResult["native"] = [kind |-> "rejected", error |-> NotSuccessfulError]
    /\ extracted["cep18"] # None
    /\ mpc = "done"

\* Everything the program holds about submission t.
Submission(t) ==
    <<pc[t], local[t], srid[t], tx[t], putCount[t], pollCount[t], elapsed[t],
      waitResult[t], sendResult[t], fetched[t], extracted[t], exampleResult[t],
      hashLog[t]>>

NativeEnded == exampleResult["native"] # Pending

C19_Sequential ==
    /\ ~NativeEnded =>
          (/\ pc["cep18"] = "idle"
           /\ tx["cep18"] = None
           /\ putCount["cep18"] = 0
           /\ pollCount["cep18"] = 0
           /\ remote["cep18"] = None)
    /\ NativeEnded => pc["native"] = "ended"
    /\ (NativeEnded /\ pc["cep18"] = "idle") => ENABLED RunExample("cep18")
    /\ mpc = "done" => exampleResult["cep18"] # Pending

\* C19: main runs the two examples one after the other: no operation of the
\* CEP-18 submission starts before the native-transfer example has ended,
\* the CEP-18 example is run whatever the outcome of the native one, and no
\* step of one submission changes what the program holds about the other.
C19_SequentialIndependent ==
    /\ []C19_Sequential
    /\ [][/\ NativeEnded => Submission("native")' = Submission("native")
          /\ ~NativeEnded' => Submission("cep18")' = Submission("cep18")]_vars

C19_Witness ==
    /\ exampleResult["native"].kind = "rejected"
    /\ exampleResult["native"].error = ConfirmationTimeout
    /\ exampleResult["cep18"].kind = "resolved"
    /\ mpc = "done"

====
